---- MODULE Spec2Model ----
(***************************************************************************)
(* rustytdown: YouTubeDownloader (src/src/lib.rs).                         *)
(*                                                                         *)
(* One invocation of download_video or download_and_convert is modelled as *)
(* a state machine whose positions are the await points of the async code: *)
(* metadata POST, body read, JSON navigation, media GET, File::create, the *)
(* copy loop (stream.next / write_all), the ffmpeg run and remove_file.    *)
(* Two things run beside the invocation: wall-clock time (Tick), which the *)
(* per-request timeout of the shared reqwest Client observes, and the      *)
(* blocking-pool thread that carries out a write handed over by            *)
(* tokio::fs::File::write_all (BlockingWrite).                             *)
(***************************************************************************)
EXTENDS Integers, Sequences, FiniteSets, TLC

\* ---------------------------------------------------------------- bounds
MaxFormats == 2      \* longest formats / adaptiveFormats array
MaxChunks == 3       \* most chunks the media stream delivers
MaxChunkLen == 2     \* longest chunk, in bytes
MaxTotal == 3        \* largest Content-Length the media response announces
MaxElapsed == 30     \* the clock stops advancing here (seconds)
TickSecs == 10       \* seconds that pass in one Tick

\* ------------------------------------------------------ program constants
TimeoutSecs == 20    \* Client::builder().timeout(Duration::from_secs(20))

VideoIds == {"dQw4w9WgXcQ"}
Urls == {"https://r1/videoplayback", "https://r2/videoplayback"}
Statuses == {200, 299, 300, 404}
Bodies == {"", "forbidden"}

\* --------------------------------------------------------------- Result<T>
Ok(v) == [ok |-> TRUE, kind |-> "", msg |-> "", status |-> 0, body |-> "", val |-> v]
Err(k, m) == [ok |-> FALSE, kind |-> k, msg |-> m, status |-> 0, body |-> "", val |-> ""]
NoResult == [ok |-> FALSE, kind |-> "pending", msg |-> "", status |-> 0, body |-> "", val |-> ""]

\* format!("API request failed with status: {} - Body: {}", status, text)
ApiStatusError(s, b) ==
    [ok |-> FALSE, kind |-> "Api", msg |-> "API request failed with status",
     status |-> s, body |-> b, val |-> ""]

\* format!("{video_id}.mp4") and format!("{video_id}.flac")
video_path(id) == id \o ".mp4"
audio_path(id) == id \o ".flac"

\* reqwest StatusCode::is_success: 200..=299
is_success_3xx(s) == s >= 200 /\ s < 400
is_success(s) == s >= 200 /\ s <= 299

\* ------------------------------------------------------ serde_json values
\* A format entry is reduced to its "url" member: absent, a non-string
\* value, or a string (possibly the empty string).
Entries ==
    {[kind |-> "absent", url |-> ""], [kind |-> "number", url |-> ""]}
    \cup {[kind |-> "string", url |-> u] : u \in Urls \cup {""}}

Arrays == UNION {[1..n -> Entries] : n \in 0..MaxFormats}

AbsentField == [kind |-> "absent", items |-> << >>]
NullField == [kind |-> "null", items |-> << >>]
FieldVals == {AbsentField, NullField} \cup {[kind |-> "array", items |-> a] : a \in Arrays}

NoJson == [streamingData |-> "none", formats |-> AbsentField, adaptiveFormats |-> AbsentField]
JsonDocs ==
    {[streamingData |-> k, formats |-> AbsentField, adaptiveFormats |-> AbsentField] :
        k \in {"absent", "null"}}
    \cup {[streamingData |-> "object", formats |-> f, adaptiveFormats |-> a] :
            f \in FieldVals, a \in FieldVals}

\* ------------------------------------------------------------ Option<T>
Some(v) == [some |-> TRUE, val |-> v]
NoneStr == [some |-> FALSE, val |-> ""]
NoneArr == [some |-> FALSE, val |-> << >>]

\* Value::as_array: Some(items) for an array, None for anything else
as_array(f) == IF f.kind = "array" THEN Some(f.items) ELSE NoneArr

\* format["url"].as_str(): Some(s) when the member is a string, also the
\* empty one; None when it is absent or not a string
as_str(e) == IF e.kind = "string" THEN Some(e.url) ELSE NoneStr

\* streaming_data["formats"]: indexing a non-object yields Null
index(doc, key) ==
    IF doc.streamingData # "object" THEN NullField
    ELSE IF key = "formats" THEN doc.formats ELSE doc.adaptiveFormats

\* formats.iter().filter_map(|format| format["url"].as_str())
RECURSIVE filter_map_url(_)
filter_map_url(items) ==
    IF items = << >> THEN << >>
    ELSE LET o == as_str(Head(items)) IN
         IF o.some THEN <<o.val>> \o filter_map_url(Tail(items))
         ELSE filter_map_url(Tail(items))

select_formats_skip_urlless(doc) ==
    LET f == as_array(index(doc, "formats")) IN
    IF f.some /\ filter_map_url(f.val) # << >> THEN f
    ELSE as_array(index(doc, "adaptiveFormats"))

select_formats_or_default(doc) ==
    LET f == as_array(index(doc, "formats")) IN
    IF f.some THEN f
    ELSE LET a == as_array(index(doc, "adaptiveFormats")) IN
         IF a.some THEN a ELSE Some(<< >>)

\* streaming_data["formats"].as_array()
\*     .or_else(|| streaming_data["adaptiveFormats"].as_array())
select_formats(doc) ==
    LET f == as_array(index(doc, "formats")) IN
    IF f.some THEN f ELSE as_array(index(doc, "adaptiveFormats"))

\* lines 120-136 of get_video_url: from the parsed document to Result<String>
parse_response(doc) ==
    IF doc.streamingData = "absent"
    THEN Err("Api", "No streamingData found in response")
    ELSE LET formats == select_formats(doc) IN
         IF ~formats.some
         THEN Err("Api", "No formats or adaptiveFormats found")
         ELSE LET urls == filter_map_url(formats.val) IN
              IF urls = << >> THEN Err("Api", "No valid URL found")
              ELSE Ok(Head(urls))

\* if !status.success() { return Err(Conversion) }  else remove_file
after_transcode_always_remove(success) == "remove"
after_transcode(success) == IF success THEN "remove" ELSE "fail"

\* Ok(video_path) at the end of download_video: no comparison with total_size
download_video_result_checked(id, n, total) ==
    IF total > 0 /\ n # total THEN Err("Io", "size mismatch") ELSE Ok(video_path(id))
download_video_result(id, n, total) == Ok(video_path(id))

RECURSIVE SeqSum(_)
SeqSum(s) == IF s = << >> THEN 0 ELSE Head(s) + SeqSum(Tail(s))

\* ------------------------------------------------------------------ state
VARIABLES
    op,           \* the public method invoked
    video_id,     \* its argument
    pc,           \* the await point the invocation is at
    clock,        \* seconds since the request in flight was started
    status,       \* response.status() of the metadata POST
    json,         \* the parsed metadata document (local to get_video_url)
    url_result,   \* what get_video_url is about to return
    url,          \* let url = self.get_video_url(video_id).await?
    total_size,   \* res.content_length().unwrap_or(0)
    pb_length,    \* ProgressBar length
    pb_position,  \* ProgressBar position
    downloaded,   \* running byte counter
    received,     \* chunk lengths the stream delivered, in order
    mp4,          \* <video_id>.mp4 on disk
    flac,         \* <video_id>.flac exists
    file_state,   \* tokio::fs::File: idle / busy / done_ok / done_err
    file_buf,     \* the chunk handed to the blocking pool
    result,       \* the invocation's Result<String>
    ended_at,     \* the step at which the invocation ended
    posts, gets, creates, writes, launches, deletes,   \* steps performed
    launch_size,  \* bytes of <video_id>.mp4 on disk when ffmpeg was started
    exit_status   \* none / success / failure of the ffmpeg run

ctl == <<op, video_id>>
metaVars == <<status, json, url_result, url>>
dlVars == <<total_size, pb_length, pb_position, downloaded, received>>
fsVars == <<mp4, flac>>
fileVars == <<file_state, file_buf>>
steps == <<posts, gets, creates, writes, launches, deletes>>
convVars == <<launch_size, exit_status>>
vars == <<op, video_id, pc, clock, status, json, url_result, url, total_size,
          pb_length, pb_position, downloaded, received, mp4, flac, file_state,
          file_buf, result, ended_at, posts, gets, creates, writes, launches,
          deletes, launch_size, exit_status>>

Absent == [exists |-> FALSE, data |-> << >>]
Stale == [exists |-> TRUE, data |-> <<9>>]
Size(f) == SeqSum(f.data)

Init ==
    /\ op \in {"download_video", "download_and_convert"}
    /\ video_id \in VideoIds
    /\ pc = "start"
    /\ clock = 0
    /\ status = 0
    /\ json = NoJson
    /\ url_result = NoResult
    /\ url = ""
    /\ total_size = 0
    /\ pb_length = 0
    /\ pb_position = 0
    /\ downloaded = 0
    /\ received = << >>
    /\ mp4 \in {Absent, Stale}
    /\ flac = FALSE
    /\ file_state = "idle"
    /\ file_buf = 0
    /\ result = NoResult
    /\ ended_at = "running"
    /\ posts = 0 /\ gets = 0 /\ creates = 0
    /\ writes = 0 /\ launches = 0 /\ deletes = 0
    /\ launch_size = 0
    /\ exit_status = "none"

\* `?` / return Err(..): the invocation ends with r at step `at`
Fail(r, at) ==
    /\ pc' = "done"
    /\ result' = r
    /\ ended_at' = at

Running(p) == /\ pc' = p /\ UNCHANGED <<result, ended_at>>

\* reqwest applies the Client's timeout to every request it sends, from the
\* start of the request until its response body has been read to the end.
TimedOut == clock >= TimeoutSecs

\* ------------------------------------------------------------ get_video_url
\* self.client.post(..).json(..).send(): the one metadata request
Call ==
    /\ pc = "start"
    /\ posts' = posts + 1
    /\ clock' = 0
    /\ Running("post_wait")
    /\ UNCHANGED <<ctl, metaVars, dlVars, fsVars, fileVars, convVars,
                   gets, creates, writes, launches, deletes>>

\* .send().await yields a response with some status
PostResponse ==
    /\ pc = "post_wait"
    /\ ~TimedOut
    /\ \E s \in Statuses : status' = s
    /\ Running("post_body")
    /\ UNCHANGED <<ctl, clock, json, url_result, url, dlVars, fsVars, fileVars,
                   convVars, steps>>

\* .send().await? fails in the transport
PostFail ==
    /\ pc = "post_wait"
    /\ Fail(Err("Client", "transport"), "post")
    /\ UNCHANGED <<ctl, clock, metaVars, dlVars, fsVars, fileVars, convVars, steps>>

\* the 20 s deadline passes before the response arrives
PostTimeout ==
    /\ pc = "post_wait"
    /\ TimedOut
    /\ Fail(Err("Client", "timeout"), "post")
    /\ UNCHANGED <<ctl, clock, metaVars, dlVars, fsVars, fileVars, convVars, steps>>

\* !status.is_success(): Err(Api(format!(.. status, response.text().await?)))
ReadText ==
    /\ pc = "post_body"
    /\ ~is_success(status)
    /\ ~TimedOut
    /\ \E b \in Bodies : Fail(ApiStatusError(status, b), "status")
    /\ UNCHANGED <<ctl, clock, metaVars, dlVars, fsVars, fileVars, convVars, steps>>

\* let json: Value = response.json().await?
ReadJson ==
    /\ pc = "post_body"
    /\ is_success(status)
    /\ ~TimedOut
    /\ \E doc \in JsonDocs : json' = doc
    /\ Running("parse")
    /\ UNCHANGED <<ctl, clock, status, url_result, url, dlVars, fsVars, fileVars,
                   convVars, steps>>

\* response.text().await? / response.json().await? fail: the body cannot be
\* read, or (json) it is not a JSON document
ReadBodyFail ==
    /\ pc = "post_body"
    /\ Fail(Err("Client", IF is_success(status) THEN "decode" ELSE "transport"), "body")
    /\ UNCHANGED <<ctl, clock, metaVars, dlVars, fsVars, fileVars, convVars, steps>>

\* the deadline of the POST passes while its body is read
ReadBodyTimeout ==
    /\ pc = "post_body"
    /\ TimedOut
    /\ Fail(Err("Client", "timeout"), "body")
    /\ UNCHANGED <<ctl, clock, metaVars, dlVars, fsVars, fileVars, convVars, steps>>

\* streamingData -> formats / adaptiveFormats -> first url
Parse ==
    /\ pc = "parse"
    /\ url_result' = parse_response(json)
    /\ Running("url_return")
    /\ UNCHANGED <<ctl, clock, status, json, url, dlVars, fsVars, fileVars,
                   convVars, steps>>

\* get_video_url returns (json is dropped); the caller applies `?`
UrlReturn ==
    /\ pc = "url_return"
    /\ json' = NoJson
    /\ IF url_result.ok
       THEN /\ url' = url_result.val
            /\ Running("get_start")
       ELSE /\ Fail(url_result, "parse")
            /\ UNCHANGED url
    /\ UNCHANGED <<ctl, clock, status, url_result, dlVars, fsVars, fileVars,
                   convVars, steps>>

\* ------------------------------------------------- media GET and File::create
\* self.client.get(&url).header(..).send(): the same Client, the same timeout
MediaGet ==
    /\ pc = "get_start"
    /\ gets' = gets + 1
    /\ clock' = 0
    /\ Running("get_wait")
    /\ UNCHANGED <<ctl, metaVars, dlVars, fsVars, fileVars, convVars,
                   posts, creates, writes, launches, deletes>>

\* the response head arrives; total_size = content_length().unwrap_or(0)
GetResponse ==
    /\ pc = "get_wait"
    /\ url # ""
    /\ ~TimedOut
    /\ \E t \in 0..MaxTotal :
          /\ total_size' = t
          /\ pb_length' = t
    /\ Running("create")
    /\ UNCHANGED <<ctl, clock, metaVars, pb_position, downloaded, received,
                   fsVars, fileVars, convVars, steps>>

\* .send().await? fails (an empty url is no absolute URL: it always fails)
GetFail ==
    /\ pc = "get_wait"
    /\ Fail(Err("Client", "transport"), "get")
    /\ UNCHANGED <<ctl, clock, metaVars, dlVars, fsVars, fileVars, convVars, steps>>

GetTimeout ==
    /\ pc = "get_wait"
    /\ TimedOut
    /\ Fail(Err("Client", "timeout"), "get")
    /\ UNCHANGED <<ctl, clock, metaVars, dlVars, fsVars, fileVars, convVars, steps>>

\* File::create(&video_path).await?: creates or truncates
CreateFile ==
    /\ pc = "create"
    /\ mp4' = [exists |-> TRUE, data |-> << >>]
    /\ creates' = creates + 1
    /\ downloaded' = 0
    /\ Running("next")
    /\ UNCHANGED <<ctl, clock, metaVars, total_size, pb_length, pb_position,
                   received, flac, fileVars, convVars,
                   posts, gets, writes, launches, deletes>>

CreateFail ==
    /\ pc = "create"
    /\ Fail(Err("Io", "create"), "create")
    /\ UNCHANGED <<ctl, clock, metaVars, dlVars, fsVars, fileVars, convVars, steps>>

\* ------------------------------------------------------------ the copy loop
\* stream.next().await yields Some(Ok(chunk)): downloaded += chunk.len();
\* pb.set_position(downloaded); then file.write_all(&chunk) is awaited
StreamChunk ==
    /\ pc = "next"
    /\ ~TimedOut
    /\ Len(received) < MaxChunks
    /\ \E n \in 1..MaxChunkLen :
          /\ received' = Append(received, n)
          /\ downloaded' = downloaded + n
          /\ pb_position' = downloaded + n
    /\ Running("write")
    /\ UNCHANGED <<ctl, clock, metaVars, total_size, pb_length, fsVars, fileVars,
                   convVars, steps>>

\* stream.next().await yields Some(Err(e)): `chunk?`
StreamErr ==
    /\ pc = "next"
    /\ Fail(Err("Client", "transport"), "stream")
    /\ UNCHANGED <<ctl, clock, metaVars, dlVars, fsVars, fileVars, convVars, steps>>

\* the deadline of the GET passes while the body is still being read
StreamTimeout ==
    /\ pc = "next"
    /\ TimedOut
    /\ Fail(Err("Client", "timeout"), "stream")
    /\ UNCHANGED <<ctl, clock, metaVars, dlVars, fsVars, fileVars, convVars, steps>>

\* stream.next().await yields None: the loop ends. download_video returns
\* Ok(video_path); download_and_convert goes on to the transcoder
StreamEnd ==
    /\ pc = "next"
    /\ ~TimedOut
    /\ IF op = "download_video"
       THEN /\ pc' = "done"
            /\ result' = download_video_result(video_id, downloaded, total_size)
            /\ ended_at' = "complete"
       ELSE Running("launch")
    /\ UNCHANGED <<ctl, clock, metaVars, dlVars, fsVars, fileVars, convVars, steps>>

\* file.write_all(&chunk).await on a tokio::fs::File: the call waits for the
\* write handed over before, reports its error if it failed, and otherwise
\* copies the chunk into the file's buffer, hands the write to the blocking
\* pool and returns Ok at once
WriteAll ==
    /\ pc = "write"
    /\ file_state \in {"idle", "done_ok"}
    /\ file_buf' = received[Len(received)]
    /\ file_state' = "busy"
    /\ writes' = writes + 1
    /\ Running("next")
    /\ UNCHANGED <<ctl, clock, metaVars, dlVars, fsVars, convVars,
                   posts, gets, creates, launches, deletes>>

WriteAllErr ==
    /\ pc = "write"
    /\ file_state = "done_err"
    /\ file_state' = "idle"
    /\ Fail(Err("Io", "write"), "write")
    /\ UNCHANGED <<ctl, clock, metaVars, dlVars, fsVars, file_buf, convVars, steps>>

\* the blocking-pool thread carries out the write: the chunk reaches the file
BlockingWrite ==
    /\ file_state = "busy"
    /\ file_state' = "done_ok"
    /\ mp4' = IF mp4.exists THEN [mp4 EXCEPT !.data = Append(@, file_buf)] ELSE mp4
    /\ UNCHANGED <<ctl, pc, clock, metaVars, dlVars, flac, file_buf, result,
                   ended_at, convVars, steps>>

\* ... or the write fails (disk full, I/O error): nothing reaches the file
BlockingWriteFail ==
    /\ file_state = "busy"
    /\ file_state' = "done_err"
    /\ UNCHANGED <<ctl, pc, clock, metaVars, dlVars, fsVars, file_buf, result,
                   ended_at, convVars, steps>>

\* --------------------------------------------- the transcoder and remove_file
\* Command::new("ffmpeg").args(..).status()?: the process is started
Launch ==
    /\ pc = "launch"
    /\ launches' = launches + 1
    /\ launch_size' = Size(mp4)
    /\ Running("ffmpeg")
    /\ UNCHANGED <<ctl, clock, metaVars, dlVars, fsVars, fileVars, exit_status,
                   posts, gets, creates, writes, deletes>>

\* .status()? fails: ffmpeg cannot be started
LaunchFail ==
    /\ pc = "launch"
    /\ Fail(Err("Io", "spawn"), "launch")
    /\ UNCHANGED <<ctl, clock, metaVars, dlVars, fsVars, fileVars, convVars, steps>>

\* ffmpeg exits; if !status.success() { return Err(Conversion(..)) }
FfmpegExit ==
    /\ pc = "ffmpeg"
    /\ \E success \in BOOLEAN :
          /\ exit_status' = IF success THEN "success" ELSE "failure"
          /\ flac' = (flac \/ success)
          /\ IF after_transcode(success) = "remove"
             THEN Running("remove")
             ELSE Fail(Err("Conversion", "Failed to convert video to audio"), "transcode")
    /\ UNCHANGED <<ctl, clock, metaVars, dlVars, mp4, fileVars, launch_size, steps>>

\* remove_file(&video_path).await?; Ok(audio_path)
RemoveFile ==
    /\ pc = "remove"
    /\ mp4' = Absent
    /\ deletes' = deletes + 1
    /\ pc' = "done"
    /\ result' = Ok(audio_path(video_id))
    /\ ended_at' = "complete"
    /\ UNCHANGED <<ctl, clock, metaVars, dlVars, flac, fileVars, convVars,
                   posts, gets, creates, writes, launches>>

RemoveFail ==
    /\ pc = "remove"
    /\ Fail(Err("Io", "remove"), "remove")
    /\ UNCHANGED <<ctl, clock, metaVars, dlVars, fsVars, fileVars, convVars, steps>>

\* ------------------------------------------------------------------- time
\* Time passes while the invocation waits on the network, on the file or on
\* ffmpeg; nothing stops the clock for the transcoder.
Waiting == {"post_wait", "post_body", "get_wait", "create", "next", "write", "ffmpeg"}

Tick ==
    /\ pc \in Waiting
    /\ clock + TickSecs <= MaxElapsed
    /\ clock' = clock + TickSecs
    /\ UNCHANGED <<ctl, pc, metaVars, dlVars, fsVars, fileVars, result, ended_at,
                   convVars, steps>>

Next ==
    \/ Call \/ PostResponse \/ PostFail \/ PostTimeout
    \/ ReadText \/ ReadJson \/ ReadBodyFail \/ ReadBodyTimeout
    \/ Parse \/ UrlReturn
    \/ MediaGet \/ GetResponse \/ GetFail \/ GetTimeout
    \/ CreateFile \/ CreateFail
    \/ StreamChunk \/ StreamErr \/ StreamTimeout \/ StreamEnd
    \/ WriteAll \/ WriteAllErr \/ BlockingWrite \/ BlockingWriteFail
    \/ Launch \/ LaunchFail \/ FfmpegExit \/ RemoveFile \/ RemoveFail
    \/ Tick

Spec == Init /\ [][Next]_vars

TypeOK ==
    /\ pc \in {"start", "post_wait", "post_body", "parse", "url_return", "get_start",
               "get_wait", "create", "next", "write", "launch", "ffmpeg", "remove",
               "done"}
    /\ clock \in 0..MaxElapsed
    /\ downloaded = SeqSum(received)
    /\ pb_position = downloaded
    /\ pb_length = total_size
    /\ file_state \in {"idle", "busy", "done_ok", "done_err"}
    /\ (pc = "done") = (ended_at # "running")

\* ================================================================== claims
\* The array the claims speak of: formats when it is an array, otherwise
\* adaptiveFormats when that is one.
ClaimArray(doc) ==
    IF doc.formats.kind = "array" THEN doc.formats
    ELSE IF doc.adaptiveFormats.kind = "array" THEN doc.adaptiveFormats
    ELSE AbsentField

NonEmptyUrls(items) ==
    SelectSeq(items, LAMBDA e : e.kind = "string" /\ e.url # "")

HasUrlField(items) == \E i \in 1..Len(items) : items[i].kind # "absent"

NonSuccess == status # 0 /\ status \notin 200..299

\* C1: whenever the selected format array holds an entry with a non-empty url,
\* get_video_url returns the url of the first such entry, and never an empty
\* string.
C1_FirstNonEmptyUrl ==
    (pc = "url_return" /\ json.streamingData = "object") =>
        LET sel == ClaimArray(json) IN
        (sel.kind = "array" /\ NonEmptyUrls(sel.items) # << >>) =>
            /\ url_result = Ok(Head(NonEmptyUrls(sel.items)).url)
            /\ url_result.val # ""

\* C2: once the media response has arrived and the file is created, the
\* invocation is never ended by a timeout error, however long the copy loop or
\* the transcoder takes.
C2_NoDeadlineAfterMetadata ==
    ~(pc = "done" /\ creates = 1 /\ result.kind = "Client" /\ result.msg = "timeout")

\* C3: when the copy loop has ended without error, <video_id>.mp4 holds
\* exactly the chunks received, in order, from an empty file, and its size is
\* the sum of their lengths, which is the counter `downloaded`.
LoopEndedOk ==
    \/ pc = "launch"
    \/ pc = "done" /\ op = "download_video" /\ creates = 1 /\ result.ok

C3_FileSizeIsSumOfChunks ==
    LoopEndedOk =>
        /\ mp4.exists
        /\ mp4.data = received
        /\ Size(mp4) = SeqSum(received)
        /\ SeqSum(received) = downloaded

\* C4 as stated: the .mp4 is deleted if and only if the transcoder was
\* launched and exited with success; a non-zero exit gives a Conversion
\* failure, a failed launch gives a failure, both leave the .mp4; after a
\* successful exit the .mp4 is gone and the result is <video_id>.flac.
C4_DeletedIffTranscoded ==
    (pc = "done" /\ op = "download_and_convert") =>
        /\ (deletes = 1) <=> (launches = 1 /\ exit_status = "success")
        /\ exit_status = "failure" => (result.kind = "Conversion" /\ mp4.exists)
        /\ ended_at = "launch" => (~result.ok /\ mp4.exists)
        /\ exit_status = "success" =>
              (~mp4.exists /\ result = Ok(audio_path(video_id)))

\* C4 amended: the .mp4 is deleted only if the transcoder was launched and
\* exited with success; a non-zero exit gives a Conversion failure, a failed
\* launch an Io failure, both leave the .mp4; after a successful exit the
\* removal is attempted: when it succeeds the .mp4 is gone and the result is
\* <video_id>.flac, when it fails the result is an Io failure and the .mp4
\* stays.
C4_DeletedOnlyAfterSuccess ==
    /\ deletes = 1 => (launches = 1 /\ exit_status = "success" /\ ~mp4.exists)
    /\ (pc = "done" /\ op = "download_and_convert") =>
        /\ exit_status = "failure" =>
              /\ result = Err("Conversion", "Failed to convert video to audio")
              /\ mp4.exists /\ deletes = 0
        /\ ended_at = "launch" =>
              (~result.ok /\ result.kind = "Io" /\ mp4.exists /\ deletes = 0)
        /\ exit_status = "success" =>
              \/ deletes = 1 /\ result = Ok(audio_path(video_id))
              \/ deletes = 0 /\ mp4.exists /\ result = Err("Io", "remove")

C4_Witness ==
    /\ pc = "done" /\ op = "download_and_convert"
    /\ launches = 1 /\ exit_status = "failure"
    /\ result.kind = "Conversion"
    /\ mp4.exists /\ Size(mp4) > 0

\* C5 as stated: after a non-success status get_video_url fails with a
\* failure carrying the status code and the body text, returns no URL and
\* parses no JSON.
C5_FailureCarriesStatusAndBody ==
    NonSuccess =>
        /\ json = NoJson /\ url = "" /\ url_result = NoResult
        /\ pc = "done" =>
              /\ result.body \in Bodies
              /\ result = ApiStatusError(status, result.body)

\* C5 amended: after a non-success status get_video_url fails, returns no URL
\* and parses no JSON; the failure is an Api error carrying the status code
\* and the body text when the body text could be read, and the Client error
\* of reading the body otherwise.
C5_NonSuccessFails ==
    NonSuccess =>
        /\ json = NoJson /\ url = "" /\ url_result = NoResult
        /\ pc \in {"post_body", "done"}
        /\ pc = "done" =>
              \/ /\ ended_at = "status"
                 /\ result.body \in Bodies
                 /\ result = ApiStatusError(status, result.body)
              \/ /\ ended_at = "body"
                 /\ ~result.ok /\ result.kind = "Client"

C5_Witness ==
    /\ pc = "done" /\ status = 300
    /\ result.kind = "Api" /\ result.status = 300 /\ result.body = "forbidden"

\* C6: when the selected array (formats if it is an array, else
\* adaptiveFormats) has no entry with a url field, get_video_url fails with
\* "No valid URL found"; when formats is an array, adaptiveFormats is never
\* consulted, whatever urls it holds.
C6_NoUrlInSelectedArray ==
    (pc = "url_return" /\ json.streamingData = "object") =>
        LET sel == ClaimArray(json) IN
        /\ (sel.kind = "array" /\ ~HasUrlField(sel.items)) =>
              url_result = Err("Api", "No valid URL found")
        /\ (json.formats.kind = "array" /\ url_result.ok) =>
              \E i \in 1..Len(json.formats.items) :
                  /\ json.formats.items[i].kind = "string"
                  /\ json.formats.items[i].url = url_result.val

C6_Witness ==
    /\ pc = "url_return" /\ json.streamingData = "object"
    /\ json.formats.kind = "array" /\ Len(json.formats.items) > 0
    /\ ~HasUrlField(json.formats.items)
    /\ json.adaptiveFormats.kind = "array"
    /\ NonEmptyUrls(json.adaptiveFormats.items) # << >>
    /\ url_result = Err("Api", "No valid URL found")

\* C7: a 2xx response whose document has no streamingData, or has neither
\* formats nor adaptiveFormats as an array, makes get_video_url fail with an
\* Api error naming the missing fields, and no URL is returned.
MissingFields ==
    \/ json.streamingData \in {"absent", "null"}
    \/ /\ json.streamingData = "object"
       /\ json.formats.kind # "array"
       /\ json.adaptiveFormats.kind # "array"

C7_MissingFieldsFail ==
    (pc = "url_return" /\ MissingFields) =>
        /\ is_success(status)
        /\ ~url_result.ok /\ url_result.kind = "Api"
        /\ url_result.msg \in {"No streamingData found in response",
                               "No formats or adaptiveFormats found"}
        /\ url = ""

C7_Witness ==
    /\ pc = "url_return" /\ json.streamingData = "object"
    /\ json.formats.kind = "null" /\ json.adaptiveFormats.kind = "absent"
    /\ url_result = Err("Api", "No formats or adaptiveFormats found")

\* C8: every step happens at most once, no step is performed once a step has
\* failed, and the filesystem is untouched as long as no file was created.
StepFailed == (pc = "done" /\ ~result.ok) \/ file_state = "done_err"

C8_LinearNoStepAfterFailure ==
    [][ /\ posts' <= 1 /\ gets' <= 1 /\ creates' <= 1
        /\ launches' <= 1 /\ deletes' <= 1
        /\ gets' <= posts' /\ creates' <= gets' /\ launches' <= creates'
        /\ deletes' <= launches'
        /\ StepFailed => steps' = steps
        /\ creates' = 0 => fsVars' = fsVars ]_vars

\* C9: download_video returns Ok(<video_id>.mp4) whenever the file was created
\* and neither the stream nor a write reported an error, whatever the relation
\* of the byte count to the expected total.
C9_TotalIsAdvisory ==
    (pc = "done" /\ op = "download_video" /\ creates = 1
        /\ ended_at \notin {"stream", "write"}) =>
        result = Ok(video_path(video_id))

C9_Witness ==
    /\ pc = "done" /\ op = "download_video" /\ result.ok
    /\ total_size > 0 /\ downloaded > total_size
    /\ pb_position > pb_length

\* C10: when ffmpeg is launched, every byte counted in `downloaded` is already
\* in <video_id>.mp4.
C10_WritesCompleteAtLaunch ==
    launches = 1 => launch_size = downloaded

====
